---------------------------- MODULE Spec2Model ----------------------------
(***************************************************************************)
(* sysgomon (src/main.go): the sampling loop of a terminal dashboard.      *)
(*                                                                         *)
(* The program state is the set of locals of main() that live across the   *)
(* event loop: the CPU gauges, the network and disk history buffers with   *)
(* their scale maxima, the previous counter snapshots and the timestamps   *)
(* of the last successful updates, and the process list.  The environment  *)
(* is the clock, the cumulative OS counters and the terminal width.        *)
(*                                                                         *)
(* float64 quantities are modelled in fixed point: the integer v stands    *)
(* for v / Scale, and every multiplication or division rounds to the       *)
(* nearest representable value, as every float64 operation does (at a far  *)
(* finer resolution).  Byte counters, lengths and milliseconds are plain   *)
(* integers.  Counters are cumulative: the provider never reports a value  *)
(* below an earlier one.                                                   *)
(***************************************************************************)
EXTENDS Integers, Sequences, FiniteSets, TLC

(***************************** fixed point *********************************)

\* resolution of the fixed-point image of float64: v stands for v / Scale
Scale == 1000

\* n / d rounded to the nearest integer, halves away from zero (d > 0)
RoundDivNat(n, d) == IF 2 * (n % d) >= d THEN (n \div d) + 1 ELSE n \div d

RoundDiv(n, d) == IF n >= 0 THEN RoundDivNat(n, d) ELSE -RoundDivNat(-n, d)

\* float64 product a * b
FMul(a, b) == RoundDiv(a * b, Scale)

\* float64 quotient a / b for a >= 0, b > 0 (split so that no intermediate
\* product leaves the 32-bit range of the checker)
FDiv(a, b) == (a \div b) * Scale + RoundDiv((a % b) * Scale, b)

\* time.Duration.Seconds() of a duration given in milliseconds
Seconds(ms) == RoundDiv(ms * Scale, 1000)

\* float64(n) for a non-negative integer n
ToFloat(n) == n * Scale

max(a, b) == IF a > b THEN a ELSE b

abs(x) == IF x < 0 THEN -x ELSE x

Range(s) == {s[i] : i \in 1..Len(s)}

maxInSlice(values) ==
    IF Len(values) = 0 THEN 0
    ELSE CHOOSE m \in Range(values) : \A v \in Range(values) : ~(v > m)

Zeros(n) == [i \in 1..n |-> 0]

(************************** program constants ******************************)

animationSpeed == 30          \* 0.03
SnapThreshold == 500          \* 0.5
MinDataPoints == 100          \* minimum history length
InitialMaxValue == 100        \* 0.1
GrowFactor == 300             \* 0.3
DecayFactor == 50             \* 0.05
DecayRatio == 500             \* 0.5
DecayFloor == 1000            \* 1.0
MinMaxValue == 100            \* 0.1
BitsPerByte == 8
MbpsDivisor == 1000000
KiB == 1024
FallbackCores == 1            \* cpuCount when cpu.Counts fails

(****************************** bounds *************************************)

NumCores == 2                 \* logical cores of the host
MaxTicks == 2                 \* timer ticks explored by Spec
MaxResizes == 1               \* resize events explored by Spec
ConvergeTicks == 176          \* ticks within which SpecAnim's gauges must settle
AnimWarmup == 60              \* ticks SpecAnim spends on a first target
MaxScaleTicks == 2            \* ticks explored by SpecScale after its warm-up
MaxLiveTicks == 2             \* ticks of SpecLive whose collections may succeed
MaxPending == 2               \* events SpecLive lets wait in uiEvents
MaxCores == 7                 \* largest core count SpecLayout lays out

Widths == {80, 101}           \* terminal widths delivered by the terminal
Devices == {"sda", "sdb"}     \* block devices the host can show

(************************** CPU gauges (main.go) ***************************)

RECURSIVE SumSeq(_)
SumSeq(s) == IF Len(s) = 0 THEN 0 ELSE s[1] + SumSeq(Tail(s))

\* createCPUGauges: cpuCount + 1 gauges, all at 0; index 1 is the average
createCPUGauges(countOk) ==
    LET cpuCount == IF countOk THEN NumCores ELSE FallbackCores
    IN  [i \in 1..(cpuCount + 1) |-> [CurrentPercent |-> 0, TargetPercent |-> 0]]

\* updateCPUTargets with the division by len(percentages) left out
updateCPUTargetsNoDivision(gauges, cpu) ==
    IF ~cpu.ok THEN gauges
    ELSE LET percentages == cpu.percentages
             avgPercent == SumSeq(percentages)
         IN  [j \in 1..Len(gauges) |->
                IF j = 1 THEN [gauges[j] EXCEPT !.TargetPercent = avgPercent]
                ELSE IF j - 1 <= Len(percentages)
                     THEN [gauges[j] EXCEPT !.TargetPercent = percentages[j - 1]]
                     ELSE gauges[j]]

\* updateCPUTargets: cpu = [ok, percentages]; a failed call changes nothing
updateCPUTargets(gauges, cpu) ==
    IF ~cpu.ok THEN gauges
    ELSE LET percentages == cpu.percentages
             avgPercent == FDiv(SumSeq(percentages), ToFloat(Len(percentages)))
         IN  [j \in 1..Len(gauges) |->
                IF j = 1 THEN [gauges[j] EXCEPT !.TargetPercent = avgPercent]
                ELSE IF j - 1 <= Len(percentages)
                     THEN [gauges[j] EXCEPT !.TargetPercent = percentages[j - 1]]
                     ELSE gauges[j]]

\* the animation step without the snap onto the target
animateGaugeNoSnap(g, speed) ==
    [g EXCEPT !.CurrentPercent =
        g.CurrentPercent + FMul(g.TargetPercent - g.CurrentPercent, speed)]

\* the animation step moving by diff * (1 + speed) instead of diff * speed
animateGaugeOverdriven(g, speed) ==
    LET diff == g.TargetPercent - g.CurrentPercent
    IN  IF abs(diff) < SnapThreshold
        THEN [g EXCEPT !.CurrentPercent = g.TargetPercent]
        ELSE [g EXCEPT !.CurrentPercent = g.CurrentPercent + FMul(diff, Scale + speed)]

\* one gauge's animation step
animateGauge(g, speed) ==
    LET diff == g.TargetPercent - g.CurrentPercent
    IN  IF abs(diff) < SnapThreshold
        THEN [g EXCEPT !.CurrentPercent = g.TargetPercent]
        ELSE [g EXCEPT !.CurrentPercent = g.CurrentPercent + FMul(diff, speed)]

animateCPUGauges(gauges, speed) ==
    [j \in 1..Len(gauges) |-> animateGauge(gauges[j], speed)]

(*********************** history buffers and scale *************************)

\* the shift loop stopping one slot early (i < len-2)
shiftSliceShort(data, n) ==
    [i \in 1..Len(data) |-> IF i <= n - 2 THEN data[i + 1] ELSE data[i]]

\* the shift loop: slots 1..n-1 take their right neighbour, n = len(RxData)
shiftSlice(data, n) ==
    [i \in 1..Len(data) |-> IF i <= n - 1 THEN data[i + 1] ELSE data[i]]

shiftNetworkData(nd) ==
    [nd EXCEPT !.RxData = shiftSlice(nd.RxData, Len(nd.RxData)),
               !.TxData = shiftSlice(nd.TxData, Len(nd.RxData))]

addNetworkData(nd, rxMbps, txMbps) ==
    [nd EXCEPT !.RxData[Len(nd.RxData)] = rxMbps,
               !.TxData[Len(nd.TxData)] = txMbps]

\* the scale update setting the maximum to the observed peak at once
updateNetworkMaxValueJump(nd) ==
    LET currentMax == max(maxInSlice(nd.RxData), maxInSlice(nd.TxData))
        adapted ==
            IF currentMax > nd.MaxValue
            THEN currentMax
            ELSE IF currentMax < FMul(nd.MaxValue, DecayRatio) /\ nd.MaxValue > DecayFloor
                 THEN nd.MaxValue - FMul(nd.MaxValue - currentMax, DecayFactor)
                 ELSE nd.MaxValue
    IN  [nd EXCEPT !.MaxValue = IF adapted < MinMaxValue THEN MinMaxValue ELSE adapted]

\* the scale update decaying whatever the size of the maximum (no "> 1.0")
updateNetworkMaxValueNoFloor(nd) ==
    LET currentMax == max(maxInSlice(nd.RxData), maxInSlice(nd.TxData))
        adapted ==
            IF currentMax > nd.MaxValue
            THEN nd.MaxValue + FMul(currentMax - nd.MaxValue, GrowFactor)
            ELSE IF currentMax < FMul(nd.MaxValue, DecayRatio)
                 THEN nd.MaxValue - FMul(nd.MaxValue - currentMax, DecayFactor)
                 ELSE nd.MaxValue
    IN  [nd EXCEPT !.MaxValue = IF adapted < MinMaxValue THEN MinMaxValue ELSE adapted]

updateNetworkMaxValue(nd) ==
    LET currentMax == max(maxInSlice(nd.RxData), maxInSlice(nd.TxData))
        adapted ==
            IF currentMax > nd.MaxValue
            THEN nd.MaxValue + FMul(currentMax - nd.MaxValue, GrowFactor)
            ELSE IF currentMax < FMul(nd.MaxValue, DecayRatio) /\ nd.MaxValue > DecayFloor
                 THEN nd.MaxValue - FMul(nd.MaxValue - currentMax, DecayFactor)
                 ELSE nd.MaxValue
    IN  [nd EXCEPT !.MaxValue = IF adapted < MinMaxValue THEN MinMaxValue ELSE adapted]

updateNetworkGraph(nd, rxMbps, txMbps) ==
    updateNetworkMaxValue(addNetworkData(shiftNetworkData(nd), rxMbps, txMbps))

shiftDiskData(dd) ==
    [dd EXCEPT !.ReadData = shiftSlice(dd.ReadData, Len(dd.ReadData)),
               !.WriteData = shiftSlice(dd.WriteData, Len(dd.ReadData))]

addDiskData(dd, readMBps, writeMBps) ==
    [dd EXCEPT !.ReadData[Len(dd.ReadData)] = readMBps,
               !.WriteData[Len(dd.WriteData)] = writeMBps]

updateDiskMaxValue(dd) ==
    LET currentMax == max(maxInSlice(dd.ReadData), maxInSlice(dd.WriteData))
        adapted ==
            IF currentMax > dd.MaxValue
            THEN dd.MaxValue + FMul(currentMax - dd.MaxValue, GrowFactor)
            ELSE IF currentMax < FMul(dd.MaxValue, DecayRatio) /\ dd.MaxValue > DecayFloor
                 THEN dd.MaxValue - FMul(dd.MaxValue - currentMax, DecayFactor)
                 ELSE dd.MaxValue
    IN  [dd EXCEPT !.MaxValue = IF adapted < MinMaxValue THEN MinMaxValue ELSE adapted]

updateDiskGraph(dd, readMBps, writeMBps) ==
    updateDiskMaxValue(addDiskData(shiftDiskData(dd), readMBps, writeMBps))

\* dataPointCount: the terminal width, at least MinDataPoints
dataPointCount(width) == IF width < MinDataPoints THEN MinDataPoints ELSE width

\* copy(new, old): the old content at the head instead of the tail
growSliceHead(old, n) ==
    [i \in 1..n |-> IF i <= Len(old) THEN old[i] ELSE 0]

\* make([]float64, n) followed by copy(new[n-len(old):], old)
growSlice(old, n) ==
    [i \in 1..n |-> IF i <= n - Len(old) THEN 0 ELSE old[i - (n - Len(old))]]

\* the reallocation without its guard: the buffers follow every width
resizeNetDataAlways(nd, width) ==
    [nd EXCEPT !.RxData = growSlice(nd.RxData, dataPointCount(width)),
               !.TxData = growSlice(nd.TxData, dataPointCount(width))]

resizeNetData(nd, width) ==
    IF dataPointCount(width) > Len(nd.RxData)
    THEN [nd EXCEPT !.RxData = growSlice(nd.RxData, dataPointCount(width)),
                    !.TxData = growSlice(nd.TxData, dataPointCount(width))]
    ELSE nd

resizeDiskData(dd, width) ==
    IF dataPointCount(width) > Len(dd.ReadData)
    THEN [dd EXCEPT !.ReadData = growSlice(dd.ReadData, dataPointCount(width)),
                    !.WriteData = growSlice(dd.WriteData, dataPointCount(width))]
    ELSE dd

(***************************** rate calculation ****************************)

\* float64(cur - prev) / duration, bytes per second
bytesPerSec(cur, prev, duration) == FDiv(ToFloat(cur - prev), duration)

\* bytes/s * 8 / 1000000
toMbps(rate) == RoundDiv(rate * BitsPerByte, MbpsDivisor)

\* bytes/s / 1024 / 1024
toMBps(rate) == RoundDiv(RoundDiv(rate, KiB), KiB)

\* float64 values that need not be finite: x / 0 is +Inf for x > 0 and NaN for
\* x = 0, and both pass unchanged through a product or quotient with a
\* positive constant
Finite(v) == [class |-> "finite", v |-> v]

PosInf == [class |-> "+Inf", v |-> 0]

NaN == [class |-> "NaN", v |-> 0]

\* float64(delta) / duration with delta >= 0 and duration >= 0: the quotient
\* of lines 394-395 and 431-432, where no test of duration comes first
bytesPerSecIEEE(delta, duration) ==
    IF duration = 0 THEN (IF delta = 0 THEN NaN ELSE PosInf)
    ELSE Finite(bytesPerSec(delta, 0, duration))

\* x * 8 / 1000000
toMbpsIEEE(x) == IF x.class = "finite" THEN Finite(toMbps(x.v)) ELSE x

\* x / 1024 / 1024
toMBpsIEEE(x) == IF x.class = "finite" THEN Finite(toMBps(x.v)) ELSE x

(****************************** process list *******************************)

\* commandWidth in update(): int(float64(Dx() - 2) * 0.6); int() truncates
\* toward zero
commandWidth(dx) ==
    LET availableWidth == dx - 2
    IN  IF availableWidth >= 0 THEN (availableWidth * 6) \div 10
        ELSE -((-availableWidth * 6) \div 10)

Ellipsis == <<".", ".", ".">>

\* formatCommand: cmd a sequence of bytes; cmd[:width-3] panics when width-3
\* is negative
formatCommand(cmd, width) ==
    IF Len(cmd) > width
    THEN IF width - 3 < 0 THEN [panic |-> TRUE, out |-> <<>>]
         ELSE [panic |-> FALSE, out |-> SubSeq(cmd, 1, width - 3) \o Ellipsis]
    ELSE [panic |-> FALSE, out |-> cmd]

\* getProcessInfo: a reading p = [PID, Name, CPU, Memory, Cmdline, err], err
\* naming the read that fails ("none", "name", "cpu", "mem" or "cmd")
getProcessInfoFails(p) == p.err \in {"name", "cpu", "mem"}

\* getProcessInfo keeping whatever Cmdline returned, error or not
getProcessInfoNoFallback(p) ==
    [PID |-> p.PID, Name |-> p.Name, CPU |-> p.CPU, Memory |-> p.Memory,
     Command |-> p.Cmdline]

getProcessInfo(p) ==
    [PID |-> p.PID, Name |-> p.Name, CPU |-> p.CPU, Memory |-> p.Memory,
     Command |-> IF p.err = "cmd" THEN p.Name ELSE p.Cmdline]

\* collectProcessInfo: the readings that succeed, in enumeration order
collectProcessInfo(enum) ==
    LET kept == SelectSeq(enum, LAMBDA p : ~getProcessInfoFails(p))
    IN  [i \in 1..Len(kept) |-> getProcessInfo(kept[i])]

\* the comparison of sortProcesses turned round (CPU < CPU)
SortOrdersAscending(procs) ==
    {perm \in [1..Len(procs) -> 1..Len(procs)] :
        /\ \A i, j \in 1..Len(procs) : i # j => perm[i] # perm[j]
        /\ \A i, j \in 1..Len(procs) :
              i < j => ~(procs[perm[j]].CPU < procs[perm[i]].CPU)}

\* the orders sort.Slice may leave: CPU non-increasing (it is not stable)
SortOrders(procs) ==
    {perm \in [1..Len(procs) -> 1..Len(procs)] :
        /\ \A i, j \in 1..Len(procs) : i # j => perm[i] # perm[j]
        /\ \A i, j \in 1..Len(procs) :
              i < j => ~(procs[perm[j]].CPU > procs[perm[i]].CPU)}

sortProcesses(procs, perm) == [i \in 1..Len(procs) |-> procs[perm[i]]]

\* the first row of the table: {"Name", "CPU%", "Mem%", "Command"}
HeaderRow == [kind |-> "header", cells |-> <<"Name", "CPU%", "Mem%", "Command">>]

\* the only row when the enumeration fails: {"Error getting processes"}
ErrorRow == [kind |-> "error", cells |-> <<"Error getting processes">>]

\* fmt.Sprintf("%.1f", v): v to one decimal, as a number of tenths
formatTenths(v) == RoundDiv(v * 10, Scale)

\* the table row of one process, its command cut to the command column
processRow(p, width) ==
    [kind |-> "process", Name |-> p.Name, CPU |-> formatTenths(p.CPU),
     Memory |-> formatTenths(p.Memory), Command |-> formatCommand(p.Command, width).out]

(******************************** state ************************************)

VARIABLES
    state,              \* "Running" | "Terminated" | "Crashed" (main left by a panic)
    termWidth,          \* termWidth
    cpuGauges,          \* cpuGauges: <<[CurrentPercent, TargetPercent]>>
    netData,            \* netData: [RxData, TxData, MaxValue]
    diskData,           \* diskData: [ReadData, WriteData, MaxValue]
    prevNetIOStats,     \* prevNetIOStats: [BytesRecv, BytesSent]
    lastNetworkUpdate,  \* lastNetworkUpdate, in ms
    prevDiskIOStats,    \* prevDiskIOStats: device -> [ReadBytes, WriteBytes]
    lastDiskUpdate,     \* lastDiskUpdate, in ms
    processes,          \* processList.Processes
    rows,               \* processList.Rows
    uiEvents,           \* uiEvents: events polled and not yet received by the loop
    clock,              \* environment: time.Now(), in ms
    osNet,              \* environment: cumulative network counters
    osDisk,             \* environment: cumulative per-device disk counters
    ticks,              \* history: timer ticks handled since the initial state
    resizes,            \* history: resize events handled
    held,               \* history: consecutive ticks that left every target as it was
    maxWidth,           \* history: largest terminal width seen
    netHist,            \* history: the <<rx, tx>> samples appended, oldest first
    diskHist,           \* history: the <<read, write>> samples appended
    okNet,              \* history: counters and time of the last successful
                        \* network collection
    okDisk,             \* history: devices and time of the last successful
                        \* disk collection, and for each entry of
                        \* prevDiskIOStats the time it was read
    last,               \* history: the event handled last, the length the
                        \* network buffers had before it and, for a tick, what
                        \* the collectors returned
    probe               \* one evaluation of a pure function: arguments, result

vars == <<state, termWidth, cpuGauges, netData, diskData, prevNetIOStats,
          lastNetworkUpdate, prevDiskIOStats, lastDiskUpdate, processes, rows, uiEvents,
          clock, osNet, osDisk, ticks, resizes, held, maxWidth, netHist, diskHist,
          okNet, okDisk, last, probe>>

\* the state as one record, so that the handlers are functions of it
Cur ==
    [state |-> state, termWidth |-> termWidth, cpuGauges |-> cpuGauges,
     netData |-> netData, diskData |-> diskData, prevNetIOStats |-> prevNetIOStats,
     lastNetworkUpdate |-> lastNetworkUpdate, prevDiskIOStats |-> prevDiskIOStats,
     lastDiskUpdate |-> lastDiskUpdate, processes |-> processes, clock |-> clock,
     osNet |-> osNet, osDisk |-> osDisk, ticks |-> ticks, resizes |-> resizes,
     held |-> held, maxWidth |-> maxWidth, netHist |-> netHist,
     diskHist |-> diskHist, okNet |-> okNet, last |-> last,
     uiEvents |-> uiEvents, probe |-> probe, okDisk |-> okDisk, rows |-> rows]

Becomes(s) ==
    /\ state' = s.state
    /\ termWidth' = s.termWidth
    /\ cpuGauges' = s.cpuGauges
    /\ netData' = s.netData
    /\ diskData' = s.diskData
    /\ prevNetIOStats' = s.prevNetIOStats
    /\ lastNetworkUpdate' = s.lastNetworkUpdate
    /\ prevDiskIOStats' = s.prevDiskIOStats
    /\ lastDiskUpdate' = s.lastDiskUpdate
    /\ processes' = s.processes
    /\ clock' = s.clock
    /\ osNet' = s.osNet
    /\ osDisk' = s.osDisk
    /\ ticks' = s.ticks
    /\ resizes' = s.resizes
    /\ held' = s.held
    /\ maxWidth' = s.maxWidth
    /\ netHist' = s.netHist
    /\ diskHist' = s.diskHist
    /\ okNet' = s.okNet
    /\ last' = s.last
    /\ uiEvents' = s.uiEvents
    /\ probe' = s.probe
    /\ okDisk' = s.okDisk
    /\ rows' = s.rows

Is(s) ==
    /\ state = s.state
    /\ termWidth = s.termWidth
    /\ cpuGauges = s.cpuGauges
    /\ netData = s.netData
    /\ diskData = s.diskData
    /\ prevNetIOStats = s.prevNetIOStats
    /\ lastNetworkUpdate = s.lastNetworkUpdate
    /\ prevDiskIOStats = s.prevDiskIOStats
    /\ lastDiskUpdate = s.lastDiskUpdate
    /\ processes = s.processes
    /\ clock = s.clock
    /\ osNet = s.osNet
    /\ osDisk = s.osDisk
    /\ ticks = s.ticks
    /\ resizes = s.resizes
    /\ held = s.held
    /\ maxWidth = s.maxWidth
    /\ netHist = s.netHist
    /\ diskHist = s.diskHist
    /\ okNet = s.okNet
    /\ last = s.last
    /\ uiEvents = s.uiEvents
    /\ probe = s.probe
    /\ okDisk = s.okDisk
    /\ rows = s.rows

(************************* main(): construction ****************************)

\* the scale maximum left at the zero value of float64
InitialMaxValueUnset == 0 * Scale

\* MaxValue: 0.1 in the NetworkData and DiskData literals
StartMaxValue == InitialMaxValue

\* no pure function is under evaluation
NoProbe == [op |-> "none"]

\* the counters the OS shows when the program starts
BootNet == [BytesRecv |-> 1000, BytesSent |-> 500]

BootDisk == [d \in Devices |-> [ReadBytes |-> 4096, WriteBytes |-> 4096]]

\* devices in the first disk snapshot
BootDevices == {"sda"}

\* main() up to the event loop, on a terminal of the given width
Start(width, countOk) ==
    [state |-> "Running",
     termWidth |-> width,
     cpuGauges |-> createCPUGauges(countOk),
     netData |-> [RxData |-> Zeros(dataPointCount(width)),
                  TxData |-> Zeros(dataPointCount(width)),
                  MaxValue |-> StartMaxValue],
     diskData |-> [ReadData |-> Zeros(dataPointCount(width)),
                   WriteData |-> Zeros(dataPointCount(width)),
                   MaxValue |-> StartMaxValue],
     prevNetIOStats |-> BootNet,
     lastNetworkUpdate |-> 0,
     prevDiskIOStats |-> [d \in BootDevices |-> BootDisk[d]],
     lastDiskUpdate |-> 0,
     processes |-> <<>>,
     rows |-> <<HeaderRow>>,
     clock |-> 0,
     osNet |-> BootNet,
     osDisk |-> BootDisk,
     ticks |-> 0,
     resizes |-> 0,
     held |-> 0,
     maxWidth |-> width,
     netHist |-> <<>>,
     diskHist |-> <<>>,
     okNet |-> [BytesRecv |-> BootNet.BytesRecv, BytesSent |-> BootNet.BytesSent,
                at |-> 0],
     last |-> [kind |-> "start", len |-> 0],
     uiEvents |-> <<>>,
     probe |-> NoProbe,
     okDisk |-> [present |-> BootDevices, at |-> 0,
                 taken |-> [d \in BootDevices |-> 0]]]

\* main() up to the event loop when the baseline collections may fail: a
\* failed net.IOCounters leaves netIOCounters nil and netIOCounters[0] panics;
\* a failed disk.IOCounters leaves an empty baseline map
Boot(width, countOk, netOk, diskOk) ==
    IF ~netOk
    THEN [Start(width, countOk) EXCEPT !.state = "Crashed",
                                       !.prevDiskIOStats = <<>>,
                                       !.okDisk = [present |-> {}, at |-> 0, taken |-> <<>>],
                                       !.last = [kind |-> "panic", len |-> 0]]
    ELSE IF ~diskOk
         THEN [Start(width, countOk) EXCEPT !.prevDiskIOStats = <<>>,
                                            !.okDisk = [present |-> {}, at |-> 0, taken |-> <<>>]]
         ELSE Start(width, countOk)

(************************* main(): the event loop **************************)

RECURSIVE SumOver(_, _)
SumOver(S, f) ==
    IF S = {} THEN 0
    ELSE LET d == CHOOSE x \in S : TRUE IN f[d] + SumOver(S \ {d}, f)

\* the cumulative counters after one more tick interval of traffic
netAfter(os, net) ==
    [BytesRecv |-> os.BytesRecv + net.dRecv, BytesSent |-> os.BytesSent + net.dSent]

diskAfter(os, disk) ==
    [d \in Devices |-> [ReadBytes |-> os[d].ReadBytes + disk.delta[d].ReadBytes,
                        WriteBytes |-> os[d].WriteBytes + disk.delta[d].WriteBytes]]

\* the times the entries of prevDiskIOStats were read, after a snapshot of
\* the devices in present is stored at now: prevDiskIOStats[name] = stat
\* overwrites those entries and no entry is ever deleted
takenAfter(taken, present, now) ==
    [d \in present \cup DOMAIN taken |-> IF d \in present THEN now ELSE taken[d]]

\* the network block with lastNetworkUpdate set on failed collections too
networkUpdateStampsAlways(s, now, counters, ok) ==
    IF ~ok THEN [s EXCEPT !.lastNetworkUpdate = now]
    ELSE LET duration == Seconds(now - s.lastNetworkUpdate)
             rxMbps == toMbps(bytesPerSec(counters.BytesRecv,
                                          s.prevNetIOStats.BytesRecv, duration))
             txMbps == toMbps(bytesPerSec(counters.BytesSent,
                                          s.prevNetIOStats.BytesSent, duration))
         IN  [s EXCEPT !.netData = updateNetworkGraph(s.netData, rxMbps, txMbps),
                       !.prevNetIOStats = counters,
                       !.lastNetworkUpdate = now,
                       !.netHist = Append(s.netHist, <<rxMbps, txMbps>>)]

\* the network block of the ticker case; counters is what net.IOCounters
\* returns, ok whether it returned no error
networkUpdate(s, now, counters, ok) ==
    IF ~ok THEN s
    ELSE LET duration == Seconds(now - s.lastNetworkUpdate)
             rxBytesPerSec ==
                 bytesPerSec(counters.BytesRecv, s.prevNetIOStats.BytesRecv, duration)
             txBytesPerSec ==
                 bytesPerSec(counters.BytesSent, s.prevNetIOStats.BytesSent, duration)
             rxMbps == toMbps(rxBytesPerSec)
             txMbps == toMbps(txBytesPerSec)
         IN  [s EXCEPT !.netData = updateNetworkGraph(s.netData, rxMbps, txMbps),
                       !.prevNetIOStats = counters,
                       !.lastNetworkUpdate = now,
                       !.netHist = Append(s.netHist, <<rxMbps, txMbps>>)]

\* the disk block recording a zero sample when the collection fails
diskUpdateZeroOnError(s, now, stats, ok) ==
    IF ~ok
    THEN [s EXCEPT !.diskData = updateDiskGraph(s.diskData, 0, 0),
                   !.lastDiskUpdate = now]
    ELSE LET duration == Seconds(now - s.lastDiskUpdate)
             both == DOMAIN stats \cap DOMAIN s.prevDiskIOStats
             readMBps == [d \in both |->
                 toMBps(bytesPerSec(stats[d].ReadBytes,
                                    s.prevDiskIOStats[d].ReadBytes, duration))]
             writeMBps == [d \in both |->
                 toMBps(bytesPerSec(stats[d].WriteBytes,
                                    s.prevDiskIOStats[d].WriteBytes, duration))]
             totalReadMBps == SumOver(both, readMBps)
             totalWriteMBps == SumOver(both, writeMBps)
         IN  [s EXCEPT !.diskData = updateDiskGraph(s.diskData, totalReadMBps, totalWriteMBps),
                       !.prevDiskIOStats =
                           [d \in DOMAIN stats \cup DOMAIN s.prevDiskIOStats |->
                               IF d \in DOMAIN stats THEN stats[d] ELSE s.prevDiskIOStats[d]],
                       !.lastDiskUpdate = now,
                       !.diskHist = Append(s.diskHist, <<totalReadMBps, totalWriteMBps>>)]

\* the disk block of the ticker case; stats is the snapshot disk.IOCounters
\* returns (a function on the devices present), ok whether it returned no error
diskUpdate(s, now, stats, ok) ==
    IF ~ok THEN s
    ELSE LET duration == Seconds(now - s.lastDiskUpdate)
             both == DOMAIN stats \cap DOMAIN s.prevDiskIOStats
             readMBps == [d \in both |->
                 toMBps(bytesPerSec(stats[d].ReadBytes,
                                    s.prevDiskIOStats[d].ReadBytes, duration))]
             writeMBps == [d \in both |->
                 toMBps(bytesPerSec(stats[d].WriteBytes,
                                    s.prevDiskIOStats[d].WriteBytes, duration))]
             totalReadMBps == SumOver(both, readMBps)
             totalWriteMBps == SumOver(both, writeMBps)
         IN  [s EXCEPT !.diskData = updateDiskGraph(s.diskData, totalReadMBps, totalWriteMBps),
                       !.prevDiskIOStats =
                           [d \in DOMAIN stats \cup DOMAIN s.prevDiskIOStats |->
                               IF d \in DOMAIN stats THEN stats[d] ELSE s.prevDiskIOStats[d]],
                       !.lastDiskUpdate = now,
                       !.diskHist = Append(s.diskHist, <<totalReadMBps, totalWriteMBps>>)]

\* processList.update(): procs = [ok, enum, perm], perm the order the sort
\* leaves; a failed enumeration leaves Processes and shows the error row, and
\* a command that formatCommand cannot cut ends main by a panic
processUpdate(s, procs) ==
    IF ~procs.ok THEN [s EXCEPT !.rows = <<ErrorRow>>]
    ELSE LET sorted == sortProcesses(collectProcessInfo(procs.enum), procs.perm)
             width == commandWidth(s.termWidth)
         IN  IF \E i \in 1..Len(sorted) : formatCommand(sorted[i].Command, width).panic
             THEN [s EXCEPT !.processes = sorted, !.state = "Crashed"]
             ELSE [s EXCEPT !.processes = sorted,
                            !.rows = <<HeaderRow>> \o
                                [i \in 1..Len(sorted) |-> processRow(sorted[i], width)]]

Targets(gauges) == [j \in 1..Len(gauges) |-> gauges[j].TargetPercent]

\* the ticker case animating the gauges before it refreshes their targets
TickFnAnimateFirst(s, in) ==
    LET now == s.clock + in.dur
        osN == netAfter(s.osNet, in.net)
        osD == diskAfter(s.osDisk, in.disk)
        targeted == updateCPUTargets(animateCPUGauges(s.cpuGauges, animationSpeed), in.cpu)
        s1 == [s EXCEPT !.clock = now, !.osNet = osN, !.osDisk = osD,
                        !.ticks = s.ticks + 1,
                        !.last = [kind |-> "tick", len |-> Len(s.netData.RxData),
                                  cpu |-> in.cpu.ok, net |-> in.net.ok,
                                  disk |-> in.disk.ok, procs |-> in.procs.ok,
                                  percentages |-> in.cpu.percentages,
                                  present |-> in.disk.present,
                                  enum |-> in.procs.enum],
                        !.held = IF Targets(targeted) = Targets(s.cpuGauges)
                                 THEN s.held + 1 ELSE 0,
                        !.okNet = IF in.net.ok
                                  THEN [BytesRecv |-> osN.BytesRecv,
                                        BytesSent |-> osN.BytesSent, at |-> now]
                                  ELSE s.okNet,
                        !.okDisk = IF in.disk.ok
                                   THEN [present |-> in.disk.present, at |-> now,
                                         taken |-> takenAfter(s.okDisk.taken,
                                                              in.disk.present, now)]
                                   ELSE s.okDisk,
                        !.cpuGauges = targeted]
        s2 == networkUpdate(s1, now, osN, in.net.ok)
        s3 == diskUpdate(s2, now, [d \in in.disk.present |-> osD[d]], in.disk.ok)
    IN  processUpdate(s3, in.procs)

\* case <-ticker: one whole tick, in = [dur, cpu, net, disk, procs]
TickFn(s, in) ==
    LET now == s.clock + in.dur
        osN == netAfter(s.osNet, in.net)
        osD == diskAfter(s.osDisk, in.disk)
        targeted == updateCPUTargets(s.cpuGauges, in.cpu)
        s1 == [s EXCEPT !.clock = now, !.osNet = osN, !.osDisk = osD,
                        !.ticks = s.ticks + 1,
                        !.last = [kind |-> "tick", len |-> Len(s.netData.RxData),
                                  cpu |-> in.cpu.ok, net |-> in.net.ok,
                                  disk |-> in.disk.ok, procs |-> in.procs.ok,
                                  percentages |-> in.cpu.percentages,
                                  present |-> in.disk.present,
                                  enum |-> in.procs.enum],
                        !.held = IF Targets(targeted) = Targets(s.cpuGauges)
                                 THEN s.held + 1 ELSE 0,
                        !.okNet = IF in.net.ok
                                  THEN [BytesRecv |-> osN.BytesRecv,
                                        BytesSent |-> osN.BytesSent, at |-> now]
                                  ELSE s.okNet,
                        !.okDisk = IF in.disk.ok
                                   THEN [present |-> in.disk.present, at |-> now,
                                         taken |-> takenAfter(s.okDisk.taken,
                                                              in.disk.present, now)]
                                   ELSE s.okDisk,
                        !.cpuGauges = animateCPUGauges(targeted, animationSpeed)]
        s2 == networkUpdate(s1, now, osN, in.net.ok)
        s3 == diskUpdate(s2, now, [d \in in.disk.present |-> osD[d]], in.disk.ok)
    IN  processUpdate(s3, in.procs)

\* case "<Resize>": the new width; countOk whether cpu.Counts succeeds
ResizeFn(s, width, countOk) ==
    [s EXCEPT !.termWidth = width,
              !.cpuGauges = createCPUGauges(countOk),
              !.netData = resizeNetData(s.netData, width),
              !.diskData = resizeDiskData(s.diskData, width),
              !.resizes = s.resizes + 1,
              !.held = 0,
              !.last = [kind |-> "resize", len |-> Len(s.netData.RxData)],
              !.maxWidth = max(s.maxWidth, width)]

\* the quit case leaving the switch (break) instead of main (return)
QuitFnBreak(s) ==
    [s EXCEPT !.last = [kind |-> "quit", len |-> Len(s.netData.RxData)]]

\* case "q", "<C-c>": return
QuitFn(s) ==
    [s EXCEPT !.state = "Terminated",
              !.last = [kind |-> "quit", len |-> Len(s.netData.RxData)]]

(******************************* inputs ************************************)

CpuErr == [ok |-> FALSE, percentages |-> <<>>]

CpuOk(p) == [ok |-> TRUE, percentages |-> p]

CpuUneven == CpuOk([i \in 1..NumCores |-> IF i = 1 THEN 0 ELSE 30500])

CpuInputs == {CpuErr, CpuOk([i \in 1..NumCores |-> 100000]), CpuUneven}

NetErr == [ok |-> FALSE, dRecv |-> 1000, dSent |-> 1000]

NetBusy == [ok |-> TRUE, dRecv |-> 75000, dSent |-> 0]

NetInputs == {NetErr, [ok |-> TRUE, dRecv |-> 1000, dSent |-> 1000], NetBusy}

DiskDelta(r, w) == [d \in Devices |-> [ReadBytes |-> r, WriteBytes |-> w]]

DiskErr == [ok |-> FALSE, present |-> {}, delta |-> DiskDelta(0, 0)]

\* a snapshot without sda
DiskOther == [ok |-> TRUE, present |-> {"sdb"}, delta |-> DiskDelta(65536, 65536)]

DiskBoth == [ok |-> TRUE, present |-> Devices, delta |-> DiskDelta(65536, 262144)]

DiskInputs ==
    {DiskErr, [ok |-> TRUE, present |-> {"sda"}, delta |-> DiskDelta(262144, 0)],
     DiskOther, DiskBoth}

ProcErr == [ok |-> FALSE, enum |-> <<>>, perm |-> <<>>]

\* one enumeration: names and command lines are sequences of bytes; a read
\* that fails returns the zero value
Enumerated ==
    <<[PID |-> 1, Name |-> <<"i", "n", "i", "t">>, CPU |-> 500, Memory |-> 100,
       Cmdline |-> <<"/", "s", "b", "i", "n", "/", "i", "n", "i", "t">>, err |-> "none"],
      [PID |-> 7, Name |-> <<"k", "w", "o", "r", "k", "e", "r">>, CPU |-> 500, Memory |-> 0,
       Cmdline |-> <<>>, err |-> "cmd"],
      [PID |-> 9, Name |-> <<"g", "o", "n", "e">>, CPU |-> 0, Memory |-> 0,
       Cmdline |-> <<>>, err |-> "cpu"],
      [PID |-> 12, Name |-> <<"g", "o">>, CPU |-> 42000, Memory |-> 1540,
       Cmdline |-> <<"g", "o", " ", "b", "u", "i", "l", "d">>, err |-> "none"],
      [PID |-> 15, Name |-> <<>>, CPU |-> 0, Memory |-> 0,
       Cmdline |-> <<>>, err |-> "name"],
      [PID |-> 16, Name |-> <<"s", "s", "h", "d">>, CPU |-> 90000, Memory |-> 0,
       Cmdline |-> <<>>, err |-> "mem"]>>

ProcInputs ==
    {ProcErr} \cup
    {[ok |-> TRUE, enum |-> Enumerated, perm |-> perm] :
        perm \in SortOrders(collectProcessInfo(Enumerated))}

Durations == {300, 1000}

\* the reading of an ordinary tick
Nominal ==
    [dur |-> 300,
     cpu |-> CpuOk([i \in 1..NumCores |-> 100000]),
     net |-> [ok |-> TRUE, dRecv |-> 1000, dSent |-> 1000],
     disk |-> [ok |-> TRUE, present |-> {"sda"}, delta |-> DiskDelta(262144, 0)],
     procs |-> CHOOSE p \in ProcInputs : p.ok]

\* the ticks explored: the ordinary reading, each failing collection, and
\* two ticks that differ from the ordinary one in every collector (the
\* collectors share no state, so each reading is met in some tick)
TickInputs ==
    {Nominal,
     [Nominal EXCEPT !.cpu = CpuErr, !.procs = ProcErr],
     [Nominal EXCEPT !.net = NetErr],
     [Nominal EXCEPT !.disk = DiskErr],
     [Nominal EXCEPT !.cpu = CpuUneven, !.net = NetBusy, !.disk = DiskOther]}
    \cup {[Nominal EXCEPT !.dur = 1000, !.disk = DiskBoth, !.procs = p] :
             p \in {q \in ProcInputs : q.ok /\ q # Nominal.procs}}

(***************************** specification *******************************)

\* the baseline collections fail on one terminal, succeed on all
Init ==
    \/ \E width \in Widths, countOk \in BOOLEAN : Is(Boot(width, countOk, TRUE, TRUE))
    \/ \E netOk, diskOk \in BOOLEAN : Is(Boot(80, TRUE, netOk, diskOk))

Tick ==
    /\ state = "Running"
    /\ ticks < MaxTicks
    /\ \E in \in TickInputs : Becomes(TickFn(Cur, in))

\* cpu.Counts answers a resize as it answered at the start
Resize ==
    /\ state = "Running"
    /\ resizes < MaxResizes
    /\ \E width \in Widths :
          Becomes(ResizeFn(Cur, width, Len(cpuGauges) = NumCores + 1))

Quit ==
    /\ state = "Running"
    /\ Becomes(QuitFn(Cur))

Next == Tick \/ Resize \/ Quit

Spec == Init /\ [][Next]_vars

(********************* longer runs of the same loop ************************)

\* the state after n ticks that all read in (the run is cut in halves to
\* keep the evaluation shallow)
RECURSIVE Repeat(_, _, _)
Repeat(s, in, n) ==
    IF n = 0 THEN s
    ELSE IF n = 1 THEN TickFn(s, in)
    ELSE LET half == Repeat(s, in, n \div 2)
         IN  IF half.ticks = s.ticks + n \div 2
             THEN Repeat(half, in, n - n \div 2) ELSE s

\* the state after a script <<[in, n], ...>>: n ticks reading in, and so on
RECURSIVE Run(_, _)
Run(s, script) ==
    IF script = <<>> THEN s
    ELSE Run(Repeat(s, Head(script).in, Head(script).n), Tail(script))

Rep(in, n) == [in |-> in, n |-> n]

\* SpecAnim: the program has run a script that sets the targets (after a
\* warm-up on other targets, or from the start); the CPU reading then fails
\* tick after tick, which holds every target fixed.
AnimPercents == {0, 80000, 100000}

AnimReadings == {[Nominal EXCEPT !.cpu = CpuOk(p)] : p \in [1..NumCores -> AnimPercents]}

AnimWarmups == {[Nominal EXCEPT !.cpu = CpuOk([i \in 1..NumCores |-> v])] : v \in AnimPercents}

AnimScripts ==
    {<<Rep(q, 1)>> : q \in AnimReadings}
    \cup {<<Rep(p, AnimWarmup), Rep(q, 1)>> : p \in AnimWarmups, q \in AnimReadings}

InitAnim == \E script \in AnimScripts : Is(Run(Start(80, TRUE), script))

AnimTick ==
    /\ state = "Running"
    /\ held < ConvergeTicks + 2
    /\ Becomes(TickFn(Cur, [Nominal EXCEPT !.cpu = CpuErr]))

NextAnim == AnimTick

SpecAnim == InitAnim /\ [][NextAnim]_vars

\* SpecScale: the program has seen a burst of traffic of some length and
\* then a quiet period, long enough for the scale maximum to close in on the
\* burst and for the burst to reach the head of the buffers; ticks of every
\* kind follow.
Burst ==
    [Nominal EXCEPT !.net = [ok |-> TRUE, dRecv |-> 75000, dSent |-> 37500],
                    !.disk = [ok |-> TRUE, present |-> {"sda"},
                              delta |-> DiskDelta(524288, 262144)]]

MidBurst ==
    [Nominal EXCEPT !.dur = 1000,
                    !.net = [ok |-> TRUE, dRecv |-> 75000, dSent |-> 0],
                    !.disk = [ok |-> TRUE, present |-> {"sda"},
                              delta |-> DiskDelta(524288, 0)]]

Quiet ==
    [Nominal EXCEPT !.net = [ok |-> TRUE, dRecv |-> 0, dSent |-> 0],
                    !.disk = [ok |-> TRUE, present |-> {"sda"},
                              delta |-> DiskDelta(0, 0)]]

BurstLens == {0, 1, 21}

QuietLens == {0, 99}

ScaleScripts ==
    {<<Rep(b, n), Rep(Quiet, q)>> : b \in {Burst, MidBurst}, n \in BurstLens, q \in QuietLens}

ScaleInputs ==
    {Burst, MidBurst, Quiet, Nominal,
     [Nominal EXCEPT !.net = NetErr], [Nominal EXCEPT !.disk = DiskErr]}

InitScale ==
    \E script \in ScaleScripts : Is([Run(Start(80, TRUE), script) EXCEPT !.ticks = 0])

ScaleTick ==
    /\ state = "Running"
    /\ ticks < MaxScaleTicks
    /\ \E in \in ScaleInputs : Becomes(TickFn(Cur, in))

NextScale == ScaleTick

SpecScale == InitScale /\ [][NextScale]_vars

\* SpecLive: the loop with its two channels.  The terminal delivers events
\* into uiEvents at any time, the loop receives them one at a time, and the
\* timer keeps ticking for ever.  After MaxLiveTicks ticks every collection
\* fails, so that no handler reads the clock or a counter again: the clock
\* and the history counters stop there and the run goes on in finitely many
\* states.
LiveEvents ==
    {[ID |-> "q"], [ID |-> "<C-c>"], [ID |-> "<Resize>", Width |-> 101]}

Failing ==
    [dur |-> 300, cpu |-> CpuErr,
     net |-> [ok |-> FALSE, dRecv |-> 0, dSent |-> 0],
     disk |-> DiskErr, procs |-> ProcErr]

\* a reading on an idle host: every core at 0.4 percent
Idle == [Nominal EXCEPT !.cpu = CpuOk([i \in 1..NumCores |-> 400])]

LiveInputs(n) == IF n < MaxLiveTicks THEN {Idle, Failing} ELSE {Failing}

Least(a, b) == IF a < b THEN a ELSE b

LiveCap(s) ==
    [s EXCEPT !.ticks = Least(s.ticks, MaxLiveTicks),
              !.resizes = Least(s.resizes, MaxLiveTicks),
              !.held = Least(s.held, MaxLiveTicks),
              !.clock = Least(s.clock, 300 * MaxLiveTicks)]

InitLive == Is(Start(80, TRUE))

\* the terminal puts an event on the channel
Deliver ==
    /\ state = "Running"
    /\ Len(uiEvents) < MaxPending
    /\ \E e \in LiveEvents : Becomes([Cur EXCEPT !.uiEvents = Append(uiEvents, e)])

\* the loop takes the oldest event off the channel
Received ==
    /\ state = "Running"
    /\ uiEvents # <<>>
    /\ uiEvents' = Tail(uiEvents)

\* the switch receiving "Q" where the terminal sends "q" and "<C-c>"
HandleEventNoQuitCase ==
    /\ Received
    /\ LET e == Head(uiEvents)
           s == [Cur EXCEPT !.uiEvents = Tail(uiEvents)]
       IN  Becomes(LiveCap(IF e.ID = "<Resize>" THEN ResizeFn(s, e.Width, TRUE) ELSE s))

\* case e := <-uiEvents
HandleEvent ==
    /\ Received
    /\ LET e == Head(uiEvents)
           s == [Cur EXCEPT !.uiEvents = Tail(uiEvents)]
       IN  Becomes(LiveCap(IF e.ID \in {"q", "<C-c>"} THEN QuitFn(s)
                           ELSE IF e.ID = "<Resize>" THEN ResizeFn(s, e.Width, TRUE)
                           ELSE s))

\* case <-ticker
LiveTick ==
    /\ state = "Running"
    /\ \E in \in LiveInputs(ticks) : Becomes(LiveCap(TickFn(Cur, in)))

NextLive == Deliver \/ HandleEvent \/ LiveTick

\* select chooses among its ready cases at random: an event that stays on
\* the channel is received sooner or later, however many ticks are ready
\* (HandleEvent is the only action that receives)
SpecLive == InitLive /\ [][NextLive]_vars /\ WF_uiEvents(Received)

\* SpecFormat: the program has started on a terminal of some width, narrow
\* ones included, and a tick formats the command of one process for the
\* command column of the process list.
Commands ==
    {<<>>, <<"s", "h">>, <<"t", "o", "p">>,
     <<"g", "o", " ", "b", "u", "i", "l", "d">>,
     <<"/", "s", "b", "i", "n", "/", "i", "n", "i", "t">>}

FormatWidths == 1..24

InitFormat ==
    \E width \in FormatWidths, cmd \in Commands :
        Is([Start(width, TRUE) EXCEPT
               !.probe = [op |-> "formatCommand", cmd |-> cmd, done |-> FALSE]])

\* update(): pl.formatCommand(p.Command, commandWidth) for one row
FormatRow ==
    /\ probe.op = "formatCommand"
    /\ ~probe.done
    /\ LET width == commandWidth(termWidth)
           res == formatCommand(probe.cmd, width)
       IN  Becomes([Cur EXCEPT
               !.state = IF res.panic THEN "Crashed" ELSE Cur.state,
               !.probe = [op |-> "formatCommand", cmd |-> probe.cmd, done |-> TRUE,
                          width |-> width, panic |-> res.panic, out |-> res.out]])

NextFormat == FormatRow

SpecFormat == InitFormat /\ [][NextFormat]_vars

\* SpecRate: the program has taken its baselines at time 0, and its first
\* tick reads the clock ms milliseconds later (0 on a clock that has not
\* advanced) and counters that have grown by dA and dB bytes.
RateDeltas == {0, 1000, 37500, 75000}

RateElapsed == {0, 300, 1000}

InitRate ==
    \E kind \in {"network", "disk"}, dA, dB \in RateDeltas, ms \in RateElapsed :
        Is([Start(80, TRUE) EXCEPT
               !.probe = [op |-> "rate", kind |-> kind, dA |-> dA, dB |-> dB,
                          ms |-> ms, done |-> FALSE]])

\* the rates of lines 393-398 (network) and 424-432 (disk, one device)
RateSample ==
    /\ probe.op = "rate"
    /\ ~probe.done
    /\ LET duration == Seconds(probe.ms)
           a == bytesPerSecIEEE(probe.dA, duration)
           b == bytesPerSecIEEE(probe.dB, duration)
       IN  Becomes([Cur EXCEPT
               !.probe = [op |-> "rate", kind |-> probe.kind, dA |-> probe.dA,
                          dB |-> probe.dB, ms |-> probe.ms, done |-> TRUE,
                          a |-> IF probe.kind = "network" THEN toMbpsIEEE(a)
                                ELSE toMBpsIEEE(a),
                          b |-> IF probe.kind = "network" THEN toMbpsIEEE(b)
                                ELSE toMBpsIEEE(b)]])

NextRate == RateSample

SpecRate == InitRate /\ [][NextRate]_vars

(******************************** layout ***********************************)

\* image.Rect(x0, y0, x1, y1), as Block.SetRect calls it: the corners are put
\* in order
Rect(x0, y0, x1, y1) ==
    [Min |-> [X |-> Least(x0, x1), Y |-> Least(y0, y1)],
     Max |-> [X |-> max(x0, x1), Y |-> max(y0, y1)]]

\* the rectangle of the average gauge: SetRect(0, 4, width, 7)
avgGaugeRect(width) == Rect(0, 4, width, 7)

\* the per-core loop with the right column numbered like the left one
\* (yOffset = i in both columns)
coreGaugeNoColumnOffset(i, cpuCount, width) ==
    LET columnWidth == width \div 2
        isLeftColumn == i < cpuCount \div 2
        xStart == IF isLeftColumn THEN 0 ELSE columnWidth
        yOffset == i
        xEnd == IF isLeftColumn THEN xStart + columnWidth ELSE width
    IN  [isLeftColumn |-> isLeftColumn,
         Rectangle |-> Rect(xStart, 7 + yOffset * 3, xEnd, 10 + yOffset * 3)]

\* the body of the per-core loop of createCPUGauges for core i (from 0): the
\* column of the gauge and its rectangle
coreGauge(i, cpuCount, width) ==
    LET columnWidth == width \div 2
        isLeftColumn == i < cpuCount \div 2
        xStart == IF isLeftColumn THEN 0 ELSE columnWidth
        yOffset == IF isLeftColumn THEN i ELSE i - cpuCount \div 2
        xEnd == IF isLeftColumn THEN xStart + columnWidth ELSE width
    IN  [isLeftColumn |-> isLeftColumn,
         Rectangle |-> Rect(xStart, 7 + yOffset * 3, xEnd, 10 + yOffset * 3)]

\* totalHeight of createCPUGauges, cpuHeight in main
totalHeight(cpuCount) ==
    LET rowsPerColumn == (cpuCount + 1) \div 2
    IN  7 + rowsPerColumn * 3

\* netStats.SetRect(0, cpuHeight, termWidth, cpuHeight+4)
netStatsRect(width, cpuHeight) == Rect(0, cpuHeight, width, cpuHeight + 4)

\* SpecLayout: the program starts on a terminal of some width on a host where
\* cpu.Counts returns some number of cores, and lays out its gauges and the
\* network panel (at the start and on every resize, by the same code).
LayoutCores == 1..MaxCores

LayoutWidths == 0..24 \cup Widths

InitLayout ==
    \E cores \in LayoutCores, width \in LayoutWidths :
        Is([Start(width, TRUE) EXCEPT
               !.probe = [op |-> "layout", cores |-> cores, done |-> FALSE]])

\* createCPUGauges(termWidth) and the netStats.SetRect that follows it
Layout ==
    /\ probe.op = "layout"
    /\ ~probe.done
    /\ LET cpuHeight == totalHeight(probe.cores)
       IN  Becomes([Cur EXCEPT
               !.probe = [op |-> "layout", cores |-> probe.cores, done |-> TRUE,
                          avg |-> avgGaugeRect(termWidth),
                          gauges |-> [k \in 1..probe.cores |->
                                         coreGauge(k - 1, probe.cores, termWidth)],
                          cpuHeight |-> cpuHeight,
                          netStats |-> netStatsRect(termWidth, cpuHeight)]])

NextLayout == Layout

SpecLayout == InitLayout /\ [][NextLayout]_vars

(**************************** history buffers ******************************)

Buffers == <<netData.RxData, netData.TxData, diskData.ReadData, diskData.WriteData>>

\* C1: each of the four history buffers has length max(100, the largest
\* terminal width seen so far), whatever ticks and resizes have happened (so
\* the length is never below 100, never decreases, and is the same in a pair).
C1_BufferLengths ==
    \A k \in 1..4 : Len(Buffers[k]) = (IF maxWidth > 100 THEN maxWidth ELSE 100)

\* a narrowing resize after ticks has left the wider buffers in place
C1_Witness ==
    /\ last.kind = "resize"
    /\ ticks > 0
    /\ termWidth < maxWidth
    /\ Len(netData.RxData) = maxWidth

\* new is old with v appended: every slot takes its right neighbour's value,
\* the oldest value is gone and the last slot holds v
AppendedTo(old, new, v) ==
    /\ Len(new) = Len(old)
    /\ \A i \in 1..(Len(old) - 1) : new[i] = old[i + 1]
    /\ new[Len(old)] = v

\* buf is zeros followed by the k-th components of the samples of hist
RecentAtTail(buf, hist, k) ==
    Len(hist) <= Len(buf) =>
        \A i \in 1..Len(buf) :
            buf[i] = IF i <= Len(buf) - Len(hist) THEN 0
                     ELSE hist[i - (Len(buf) - Len(hist))][k]

C2_NetStep ==
    (ticks' = ticks + 1 /\ okNet'.at = clock') =>
        /\ Len(netHist') = Len(netHist) + 1
        /\ AppendedTo(netData.RxData, netData'.RxData, netHist'[Len(netHist')][1])
        /\ AppendedTo(netData.TxData, netData'.TxData, netHist'[Len(netHist')][2])

C2_DiskStep ==
    (Len(diskHist') = Len(diskHist) + 1) =>
        /\ AppendedTo(diskData.ReadData, diskData'.ReadData, diskHist'[Len(diskHist')][1])
        /\ AppendedTo(diskData.WriteData, diskData'.WriteData, diskHist'[Len(diskHist')][2])

\* C2: a tick whose network (disk) collection succeeds appends one sample to
\* each series of the pair by shifting every slot one place to the left and
\* writing the sample last; so after N appends to a zero-filled buffer of
\* capacity >= N the last N slots hold the N samples in order after zeros.
C2_ShiftAppend ==
    /\ [][C2_NetStep /\ C2_DiskStep]_vars
    /\ [](/\ RecentAtTail(netData.RxData, netHist, 1)
          /\ RecentAtTail(netData.TxData, netHist, 2)
          /\ RecentAtTail(diskData.ReadData, diskHist, 1)
          /\ RecentAtTail(diskData.WriteData, diskHist, 2))

\* two different samples were appended and sit in order at the tail
C2_Witness ==
    /\ Len(netHist) = 2
    /\ netHist[1][1] # netHist[2][1]
    /\ netHist[1][1] > 0
    /\ netData.RxData[Len(netData.RxData) - 1] = netHist[1][1]
    /\ netData.RxData[Len(netData.RxData)] = netHist[2][1]
    /\ Len(diskHist) = 2

\* new is old grown for width w: length max(L, max(w, 100)), the old content
\* at the tail in the same order, zeros before it
GrownFor(old, new, w) ==
    LET L == Len(old)
        cap == IF w > 100 THEN w ELSE 100
        want == IF L > cap THEN L ELSE cap
    IN  /\ Len(new) = want
        /\ \A i \in 1..want :
              new[i] = IF i <= want - L THEN 0 ELSE old[i - (want - L)]

\* C3: a resize event gives each history buffer of prior length L the length
\* max(L, max(newWidth, 100)), keeps the prior content as the last L entries
\* and fills the added leading entries with 0 (a narrowing resize changes
\* neither length nor content).
C3_ResizeKeepsTail ==
    [][resizes' = resizes + 1 =>
          /\ GrownFor(netData.RxData, netData'.RxData, termWidth')
          /\ GrownFor(netData.TxData, netData'.TxData, termWidth')
          /\ GrownFor(diskData.ReadData, diskData'.ReadData, termWidth')
          /\ GrownFor(diskData.WriteData, diskData'.WriteData, termWidth')]_vars

\* a widening resize of buffers that hold samples: zeros, then the history
C3_Witness ==
    /\ last.kind = "resize"
    /\ Len(netData.RxData) > last.len
    /\ netData.RxData[1] = 0
    /\ netData.RxData[Len(netData.RxData)] > 0
    /\ diskData.ReadData[Len(diskData.ReadData)] > 0

(******************************** gauges ***********************************)

\* C9: with per-core percentages within [0, 100], every gauge's current and
\* target value lie within [0, 100] in every reachable state.
C9_GaugeRange ==
    \A j \in 1..Len(cpuGauges) :
        /\ 0 <= cpuGauges[j].CurrentPercent /\ cpuGauges[j].CurrentPercent <= 100 * Scale
        /\ 0 <= cpuGauges[j].TargetPercent /\ cpuGauges[j].TargetPercent <= 100 * Scale

\* after a resize, ticks have set every target to 100 and moved the gauges
C9_Witness ==
    /\ resizes > 0
    /\ last.kind = "tick"
    /\ \A j \in 1..Len(cpuGauges) :
          cpuGauges[j].TargetPercent = 100 * Scale /\ cpuGauges[j].CurrentPercent > 0

(***************************** network rate ********************************)

\* the sample a (in 1/Scale Mbps) is delta bytes over el milliseconds as
\* Mbps, to the resolution of the representation: a = 8 * delta / el
IsMbps(a, delta, el) == 2 * abs(a * el - BitsPerByte * delta) <= el + 1

C10_Step ==
    (ticks' = ticks + 1 /\ okNet'.at = clock') =>
        LET el == clock' - okNet.at
            sample == netHist'[Len(netHist')]
        IN  /\ el > 0
            /\ Len(netHist') = Len(netHist) + 1
            /\ IsMbps(sample[1], osNet'.BytesRecv - okNet.BytesRecv, el)
            /\ IsMbps(sample[2], osNet'.BytesSent - okNet.BytesSent, el)

\* C10: in a tick with a successful network collection the appended RX and TX
\* samples are (current counter - previous counter) / elapsed seconds * 8 /
\* 1,000,000, the previous counter and the start of the interval being those
\* of the last successful collection (the initial baseline if there was none).
C10_NetworkRate ==
    /\ [][C10_Step]_vars
    /\ [](/\ prevNetIOStats.BytesRecv = okNet.BytesRecv
          /\ prevNetIOStats.BytesSent = okNet.BytesSent
          /\ lastNetworkUpdate = okNet.at)

\* recv 1000 -> 2000 and sent 500 -> 1500 over one second: 0.008 Mbps each way
C10_Witness ==
    /\ last.kind = "tick"
    /\ okNet = [BytesRecv |-> 2000, BytesSent |-> 1500, at |-> 1000]
    /\ netHist = <<<<8, 8>>>>

(**************************** adaptive scale *******************************)

\* the largest value held by either series
PeakOf(a, b) ==
    CHOOSE m \in Range(a) \cup Range(b) : \A v \in Range(a) \cup Range(b) : v <= m

GrewBy30Percent(old, new, peak) == 2 * abs(10 * (new - old) - 3 * (peak - old)) <= 10

\* the step of a scale maximum from old to new when the peak exceeds old, as
\* the claim states it: the 0.3 step, strictly above old, not above the peak
UpwardStepStrict(old, new, peak) ==
    peak > old => /\ GrewBy30Percent(old, new, peak)
                  /\ new > old
                  /\ new <= peak

\* the same with "strictly above old" only where 0.3 * (peak - old) is at
\* least half a step of the representation
UpwardStep(old, new, peak) ==
    peak > old => /\ GrewBy30Percent(old, new, peak)
                  /\ new >= old
                  /\ (2 * 3 * (peak - old) >= 10 => new > old)
                  /\ new <= peak

\* C5 as stated: in a tick where the observed peak exceeds the scale maximum
\* the new maximum is old + 0.3 * (peak - old), strictly greater than the old
\* value and not above the peak.
C5_Original ==
    [][/\ Len(netHist') = Len(netHist) + 1 =>
              UpwardStepStrict(netData.MaxValue, netData'.MaxValue,
                               PeakOf(netData'.RxData, netData'.TxData))
       /\ Len(diskHist') = Len(diskHist) + 1 =>
              UpwardStepStrict(diskData.MaxValue, diskData'.MaxValue,
                               PeakOf(diskData'.ReadData, diskData'.WriteData))]_vars

\* C5 amended: in a tick where the observed peak exceeds the scale maximum the
\* new maximum is old + 0.3 * (peak - old) as rounded by the arithmetic; it is
\* never below the old value and never above the peak, and it is strictly
\* greater than the old value unless 0.3 * (peak - old) is less than half the
\* spacing of representable values (the maximum then stays where it is).
C5_UpwardStep ==
    [][/\ Len(netHist') = Len(netHist) + 1 =>
              UpwardStep(netData.MaxValue, netData'.MaxValue,
                         PeakOf(netData'.RxData, netData'.TxData))
       /\ Len(diskHist') = Len(diskHist) + 1 =>
              UpwardStep(diskData.MaxValue, diskData'.MaxValue,
                         PeakOf(diskData'.ReadData, diskData'.WriteData))]_vars

\* a tick has raised the network maximum part of the way to the peak
C5_Witness ==
    /\ last.kind = "tick"
    /\ ticks = 1
    /\ Len(netHist) = 1
    /\ PeakOf(netData.RxData, netData.TxData) = 2 * Scale
    /\ netData.MaxValue = InitialMaxValue + (3 * (2 * Scale - InitialMaxValue)) \div 10

\* the step of a scale maximum from old to new when the peak does not exceed
\* old: down by 0.05 * (old - peak) if peak < old / 2 and old > 1.0, else none
DownwardStep(old, new, peak) ==
    peak <= old =>
        IF 2 * peak < old /\ old > Scale
        THEN /\ 2 * abs(100 * (old - new) - 5 * (old - peak)) <= 100
             /\ new < old
        ELSE new = old

\* C6: in a tick where the observed peak is not greater than the scale
\* maximum, the maximum is lowered, by 0.05 * (max - peak), only when
\* peak < 0.5 * max and max > 1.0; otherwise it is left unchanged.
C6_DownwardStep ==
    [][/\ Len(netHist') = Len(netHist) + 1 =>
              DownwardStep(netData.MaxValue, netData'.MaxValue,
                           PeakOf(netData'.RxData, netData'.TxData))
       /\ Len(diskHist') = Len(diskHist) + 1 =>
              DownwardStep(diskData.MaxValue, diskData'.MaxValue,
                           PeakOf(diskData'.ReadData, diskData'.WriteData))]_vars

\* the burst has left the network buffers and the maximum has decayed twice
C6_Witness ==
    /\ last.kind = "tick"
    /\ ticks = 2
    /\ PeakOf(netData.RxData, netData.TxData) = 0
    /\ netData.MaxValue > Scale
    /\ 100 * netData.MaxValue < 95 * 2 * Scale

(**************************** gauge animation ******************************)

\* one animation step of a gauge from current c to c2 with target t
AnimationStep(c, c2, t) ==
    IF abs(t - c) < SnapThreshold
    THEN c2 = t
    ELSE 2 * abs(100 * (c2 - c) - 3 * (t - c)) <= 100

C7_Step ==
    (ticks' = ticks + 1 /\ Targets(cpuGauges') = Targets(cpuGauges)) =>
        /\ Len(cpuGauges') = Len(cpuGauges)
        /\ \A j \in 1..Len(cpuGauges) :
              AnimationStep(cpuGauges[j].CurrentPercent, cpuGauges'[j].CurrentPercent,
                            cpuGauges[j].TargetPercent)

\* C7: with the target held fixed each tick adds (target - current) * 0.03
\* while |target - current| >= 0.5 and the first tick with a smaller
\* difference sets current to the target; after a bounded number of ticks
\* current equals the target, and stays there (from 0 with target 80 the
\* first tick gives 2.4).
C7_GaugeConverges ==
    /\ [][C7_Step]_vars
    /\ [](\A j \in 1..Len(cpuGauges) :
            /\ held >= ConvergeTicks =>
                  cpuGauges[j].CurrentPercent = cpuGauges[j].TargetPercent
            /\ (ticks = 1 /\ cpuGauges[j].TargetPercent = 80 * Scale) =>
                  cpuGauges[j].CurrentPercent = 2400)

\* a gauge started at 0 with target 80 has reached exactly 80 within the bound
C7_Witness ==
    /\ ticks = held + 1
    /\ held < ConvergeTicks
    /\ cpuGauges[1].TargetPercent = 80 * Scale
    /\ cpuGauges[1].CurrentPercent = 80 * Scale

\* C8: an animation tick never moves a gauge's current value past its target:
\* from at or below the target it stays at or below, from at or above it stays
\* at or above.
C8_NoOvershoot ==
    [][ticks' = ticks + 1 =>
          \A j \in 1..Len(cpuGauges) :
              /\ cpuGauges[j].CurrentPercent <= cpuGauges'[j].TargetPercent =>
                    cpuGauges'[j].CurrentPercent <= cpuGauges'[j].TargetPercent
              /\ cpuGauges[j].CurrentPercent >= cpuGauges'[j].TargetPercent =>
                    cpuGauges'[j].CurrentPercent >= cpuGauges'[j].TargetPercent]_vars

\* one gauge is on its way up and another on its way down
C8_Witness ==
    /\ last.kind = "tick"
    /\ held > 0
    /\ \E j, k \in 1..Len(cpuGauges) :
          /\ cpuGauges[j].CurrentPercent < cpuGauges[j].TargetPercent
          /\ cpuGauges[j].CurrentPercent > 0
          /\ cpuGauges[k].CurrentPercent > cpuGauges[k].TargetPercent

(*************************** failed collections ****************************)

\* the gauges were animated in this step, toward the targets they now have
Animated ==
    /\ Len(cpuGauges') = Len(cpuGauges)
    /\ \A j \in 1..Len(cpuGauges) :
          AnimationStep(cpuGauges[j].CurrentPercent, cpuGauges'[j].CurrentPercent,
                        cpuGauges'[j].TargetPercent)

NetworkKept ==
    /\ netData' = netData
    /\ prevNetIOStats' = prevNetIOStats
    /\ lastNetworkUpdate' = lastNetworkUpdate

NetworkSampled ==
    /\ lastNetworkUpdate' = clock'
    /\ prevNetIOStats' = osNet'
    /\ Len(netHist') = Len(netHist) + 1
    /\ netData'.RxData[Len(netData'.RxData)] = netHist'[Len(netHist')][1]
    /\ netData'.TxData[Len(netData'.TxData)] = netHist'[Len(netHist')][2]

DiskKept ==
    /\ diskData' = diskData
    /\ prevDiskIOStats' = prevDiskIOStats
    /\ lastDiskUpdate' = lastDiskUpdate

DiskSampled ==
    /\ lastDiskUpdate' = clock'
    /\ \A d \in last'.present : prevDiskIOStats'[d] = osDisk'[d]
    /\ Len(diskHist') = Len(diskHist) + 1
    /\ diskData'.ReadData[Len(diskData'.ReadData)] = diskHist'[Len(diskHist')][1]
    /\ diskData'.WriteData[Len(diskData'.WriteData)] = diskHist'[Len(diskHist')][2]

C12_Step ==
    ticks' = ticks + 1 =>
        /\ Animated
        /\ IF last'.cpu THEN TRUE ELSE Targets(cpuGauges') = Targets(cpuGauges)
        /\ IF last'.net THEN NetworkSampled ELSE NetworkKept
        /\ IF last'.disk THEN DiskSampled ELSE DiskKept
        /\ last'.procs => Len(processes') > 0

\* C12: a tick whose network (disk) collection fails leaves that subsystem's
\* history buffers, scale maximum, previous snapshot and last-update time as
\* they were; a tick whose CPU reading fails leaves every gauge target as it
\* was; and the other steps of such a tick still run: the gauges are
\* animated, the subsystems whose collection succeeds take their sample and
\* the process list is ranked.
C12_FailedCollection == [][C12_Step]_vars

\* the network collection failed in the second tick: the sample of the first
\* is still the newest, while the disk took a second sample
C12_Witness ==
    /\ last.kind = "tick"
    /\ ~last.net
    /\ ticks = 2
    /\ Len(netHist) = 1
    /\ netData.RxData[Len(netData.RxData)] = netHist[1][1]
    /\ netHist[1][1] > 0
    /\ lastNetworkUpdate < clock
    /\ Len(diskHist) = 2
    /\ lastDiskUpdate = clock
(******************************* lifecycle *********************************)

\* C13 as stated: no failing collection is fatal: whether it fails while the
\* baselines are established or in a later tick, the loop is running, or has
\* been left by a quit event, in every reachable state.
C13_NeverFatal ==
    /\ state \in {"Running", "Terminated"}
    /\ state = "Terminated" => last.kind = "quit"

\* C14: ticks and resizes are handled only while Running and leave the loop
\* Running; a quit event is handled only while Running and leaves it
\* Terminated; and from Terminated no step follows: no tick, no resize, and no
\* change of any gauge, buffer, scale maximum or snapshot.
C14_Lifecycle ==
    [][/\ state = "Running"
       /\ ticks' # ticks => state' = "Running" /\ last'.kind = "tick"
       /\ resizes' # resizes => state' = "Running" /\ last'.kind = "resize"
       /\ last'.kind = "quit" =>
              /\ state' = "Terminated"
              /\ <<cpuGauges', netData', diskData', prevNetIOStats', prevDiskIOStats'>>
                     = <<cpuGauges, netData, diskData, prevNetIOStats, prevDiskIOStats>>
       /\ state' \in {"Running", "Terminated"}]_vars

\* the loop has handled a tick and a resize and was then left by a quit event
C14_Witness ==
    /\ state = "Terminated"
    /\ last.kind = "quit"
    /\ ticks > 0
    /\ resizes > 0
QuitPending == \E i \in 1..Len(uiEvents) : uiEvents[i].ID \in {"q", "<C-c>"}

\* C15: once a quit event ('q' or Ctrl-C) is on the event channel the loop
\* eventually reaches Terminated, whatever ticks and other events arrive in
\* the meantime, given that an event waiting on the channel is eventually
\* received and that every collection returns.
C15_QuitTerminates == QuitPending ~> (state = "Terminated")

\* the loop was left by a quit event that had waited behind a resize while
\* ticks were handled
C15_Witness ==
    /\ state = "Terminated"
    /\ last.kind = "quit"
    /\ resizes > 0
    /\ ticks = MaxLiveTicks
    /\ Len(netHist) > 0
    /\ Len(netData.RxData) = 101
(***************************** order of a tick *****************************)

\* the targets of the per-core gauges are the readings of this tick
Refreshed ==
    \A j \in 2..Len(cpuGauges') :
        j - 1 <= Len(last'.percentages) =>
            cpuGauges'[j].TargetPercent = last'.percentages[j - 1]

C16_Step ==
    ticks' = ticks + 1 =>
        /\ last'.cpu => Refreshed
        /\ Animated
        /\ last'.net => lastNetworkUpdate' = clock' /\ Len(netHist') = Len(netHist) + 1
        /\ last'.disk => lastDiskUpdate' = clock' /\ Len(diskHist') = Len(diskHist) + 1
        /\ (last'.net /\ last'.disk) => lastDiskUpdate' = lastNetworkUpdate'
        /\ last'.procs => Len(processes') = Len(collectProcessInfo(last'.enum))

\* C16: every tick runs the whole pipeline in one step and in one order: the
\* gauge targets are refreshed from the tick's readings and the gauges are
\* then animated toward those refreshed targets (never toward the targets of
\* the tick before); the network sample, the disk sample (at the same
\* instant) and the re-ranked process list follow before the next event is
\* received.
C16_TickOrder == [][C16_Step]_vars

\* the first tick read 100 percent on every core: the gauges, at 0 with
\* target 0 before it, have moved 3 percent toward the new target, and the
\* network, the disk and the process list have been updated
C16_Witness ==
    /\ ticks = 1
    /\ last.kind = "tick"
    /\ last.cpu /\ last.net /\ last.disk /\ last.procs
    /\ \A j \in 1..Len(cpuGauges) :
          /\ cpuGauges[j].TargetPercent = 100 * Scale
          /\ cpuGauges[j].CurrentPercent = 3 * Scale
    /\ Len(netHist) = 1
    /\ Len(diskHist) = 1
    /\ Len(processes) = 3
(****************************** process list *******************************)

\* the readings of an enumeration that getProcessInfo accepts
Readable(enum) == {i \in 1..Len(enum) : enum[i].err \in {"none", "cmd"}}

\* ranked holds each readable process of enum exactly once, with its reading
RanksAll(ranked, enum) ==
    /\ Len(ranked) = Cardinality(Readable(enum))
    /\ \A i \in Readable(enum) :
          \E k \in 1..Len(ranked) :
              /\ ranked[k].PID = enum[i].PID
              /\ ranked[k].CPU = enum[i].CPU
              /\ ranked[k].Name = enum[i].Name
              /\ \A k2 \in 1..Len(ranked) : ranked[k2].PID = enum[i].PID => k2 = k

NonIncreasing(ranked) ==
    \A k \in 1..(Len(ranked) - 1) : ranked[k].CPU >= ranked[k + 1].CPU

\* C17: after every process-list update whose enumeration succeeded the
\* ranked sequence is ordered by CPU percentage non-increasing and holds
\* exactly the processes collected in that tick (those whose name, CPU and
\* memory reads succeeded), each once.
C17_Ranked ==
    [][(ticks' = ticks + 1 /\ last'.procs) =>
          /\ NonIncreasing(processes')
          /\ RanksAll(processes', last'.enum)]_vars

\* a tick has ranked three of six enumerated processes, the busiest first
C17_Witness ==
    /\ last.kind = "tick"
    /\ last.procs
    /\ Len(last.enum) = 6
    /\ Len(processes) = 3
    /\ processes[1].CPU > processes[2].CPU
    /\ processes[2].CPU = processes[3].CPU

\* the place of a process in the enumeration
PlaceIn(enum, pid) == CHOOSE i \in 1..Len(enum) : enum[i].PID = pid

\* C18 as stated: processes with equal CPU percentage appear in the ranked
\* output in their enumeration order (the ranking is stable).
C18_StableRanking ==
    [][(ticks' = ticks + 1 /\ last'.procs) =>
          \A k \in 1..(Len(processes') - 1) :
              processes'[k].CPU = processes'[k + 1].CPU =>
                  PlaceIn(last'.enum, processes'[k].PID)
                      < PlaceIn(last'.enum, processes'[k + 1].PID)]_vars
(******************************* disk rate *********************************)

\* the sample a (in 1/Scale MB/s) is kib KiB over el milliseconds as MB/s,
\* summed over n devices, to the resolution of the representation:
\* a = kib / 1024 / (el / 1000)
IsMBps(a, kib, el, n) == abs(a * KiB * el - kib * 1000 * Scale) <= n * KiB * el

C20_Step ==
    (ticks' = ticks + 1 /\ last'.disk) =>
        LET both == last'.present \cap okDisk.present
            el == clock' - okDisk.at
            sample == diskHist'[Len(diskHist')]
            readKiB == [d \in both |->
                (osDisk'[d].ReadBytes - prevDiskIOStats[d].ReadBytes) \div KiB]
            writeKiB == [d \in both |->
                (osDisk'[d].WriteBytes - prevDiskIOStats[d].WriteBytes) \div KiB]
        IN  /\ Len(diskHist') = Len(diskHist) + 1
            /\ IsMBps(sample[1], SumOver(both, readKiB), el, Cardinality(both))
            /\ IsMBps(sample[2], SumOver(both, writeKiB), el, Cardinality(both))
            /\ \A d \in last'.present : prevDiskIOStats'[d] = osDisk'[d]

\* C20 as stated: the disk read and write samples appended in a tick are the
\* sums of the per-device rates (bytes since the device's previous reading /
\* elapsed seconds / 1024 / 1024) over exactly the devices present in both
\* the previous and the current snapshot; a device seen for the first time
\* adds nothing to that tick's totals, and its reading is the baseline of the
\* next tick.
C20_DiskTotals == [][C20_Step]_vars
(**************************** command column *******************************)

\* C19 as stated: for every command and every command column width derived
\* from the widget width (60% of the width minus 2), widths below 3
\* included, formatting returns the command unchanged when its length is at
\* most the width and otherwise its first width - 3 characters followed by
\* "..."; the result is never longer than the width and the operation never
\* fails.
C19_FormatCommand ==
    (probe.op = "formatCommand" /\ probe.done) =>
        /\ ~probe.panic
        /\ Len(probe.out) <= probe.width
        /\ IF Len(probe.cmd) <= probe.width THEN probe.out = probe.cmd
           ELSE probe.out = SubSeq(probe.cmd, 1, probe.width - 3) \o Ellipsis

(***************************** stalled clock *******************************)

IsZeroRate(x) == x.class = "finite" /\ x.v = 0

\* C11 as stated: when the elapsed duration between the previous and the
\* current sample is zero or negative the computed network and disk rates
\* are 0, with no division artifact, and no rate sample is ever negative.
C11_StalledClock ==
    (probe.op = "rate" /\ probe.done) =>
        /\ probe.ms <= 0 => IsZeroRate(probe.a) /\ IsZeroRate(probe.b)
        /\ probe.a.class = "finite" => probe.a.v >= 0
        /\ probe.b.class = "finite" => probe.b.v >= 0
(***************************** gauge targets *******************************)

\* target (in 1/Scale percent) is the arithmetic mean of the percentages, to
\* the resolution of the representation
IsMean(target, percentages) ==
    2 * abs(target * Len(percentages) - SumSeq(percentages)) <= Len(percentages)

\* C21 as stated: the number of gauges is always core count + 1, and after a
\* successful CPU refresh the target of gauge 0 is the arithmetic mean of all
\* per-core percentages while the target of gauge i+1 is the percentage of
\* core i, for every core i.
C21_GaugeTargets ==
    /\ Len(cpuGauges) = NumCores + 1
    /\ (last.kind = "tick" /\ last.cpu) =>
          /\ IsMean(cpuGauges[1].TargetPercent, last.percentages)
          /\ \A i \in 1..Len(last.percentages) :
                /\ i + 1 <= Len(cpuGauges)
                /\ cpuGauges[i + 1].TargetPercent = last.percentages[i]
(************************** skipped processes ******************************)

\* the places of an enumeration whose name, CPU and memory reads all succeeded
Collected(enum) == {i \in 1..Len(enum) : enum[i].err \notin {"name", "cpu", "mem"}}

\* the entries of the ranked list with a given PID
Ranked(ranked, pid) == {k \in 1..Len(ranked) : ranked[k].PID = pid}

C22_Step ==
    (ticks' = ticks + 1 /\ last'.procs) =>
        LET enum == last'.enum IN
        /\ \A i \in 1..Len(enum) :
              IF i \in Collected(enum)
              THEN /\ Cardinality(Ranked(processes', enum[i].PID)) = 1
                   /\ \A k \in Ranked(processes', enum[i].PID) :
                         /\ processes'[k].Name = enum[i].Name
                         /\ processes'[k].CPU = enum[i].CPU
                         /\ processes'[k].Memory = enum[i].Memory
                         /\ processes'[k].Command =
                               IF enum[i].err = "cmd" THEN enum[i].Name
                               ELSE enum[i].Cmdline
              ELSE Ranked(processes', enum[i].PID) = {}
        /\ Len(processes') = Cardinality(Collected(enum))
        /\ state' = "Running" =>
              /\ Len(rows') = 1 + Len(processes')
              /\ rows'[1] = HeaderRow
              /\ \A k \in 1..Len(processes') :
                    /\ rows'[k + 1].kind = "process"
                    /\ rows'[k + 1].Name = processes'[k].Name

\* C22: the ranked list produced in a tick holds exactly the enumerated
\* processes whose name, CPU and memory reads all succeeded, each once and
\* with the values read; a process for which one of these reads fails is
\* dropped and no error is reported for it (the table the tick renders shows
\* its header and one row per ranked process); a process whose command line
\* read fails is kept, with its name as its command.
C22_SkippedProcesses == [][C22_Step]_vars

\* a tick enumerated six processes, one failing each of the name, CPU and
\* memory reads: three are ranked and shown, the one whose command line read
\* failed under its name
C22_Witness ==
    /\ last.kind = "tick"
    /\ last.procs
    /\ {last.enum[i].err : i \in 1..Len(last.enum)} = {"none", "cmd", "name", "cpu", "mem"}
    /\ Len(processes) = 3
    /\ Len(rows) = 4
    /\ \E k \in 1..Len(processes) :
          /\ processes[k].PID = 7
          /\ processes[k].Command = <<"k", "w", "o", "r", "k", "e", "r">>
          /\ rows[k + 1].Command = processes[k].Command
(**************************** resize and gauges ****************************)

\* C23 as stated: a resize event changes only widget rectangles and the
\* capacity of the history buffers: it leaves the current (displayed) value
\* and the target value of every gauge as they were, so that an animation in
\* progress continues from the same value on the next tick.
C23_ResizeKeepsGauges ==
    [][resizes' = resizes + 1 =>
          /\ Len(cpuGauges') = Len(cpuGauges)
          /\ \A j \in 1..Len(cpuGauges) :
                /\ cpuGauges'[j].CurrentPercent = cpuGauges[j].CurrentPercent
                /\ cpuGauges'[j].TargetPercent = cpuGauges[j].TargetPercent]_vars
(************************ age of the disk baseline *************************)

\* C24 as stated: whenever a per-device disk rate is computed, the previous
\* reading it is differenced against was taken at the instant from which the
\* elapsed duration is measured (the last successful disk update); this holds
\* for every device, including one that was absent from one or more
\* intermediate snapshots and then reappears.
C24_BaselineAge ==
    [][(ticks' = ticks + 1 /\ last'.disk) =>
          \A d \in last'.present \cap DOMAIN prevDiskIOStats :
              okDisk.taken[d] = lastDiskUpdate]_vars
(********************************* layout **********************************)

\* image.Rectangle.Overlaps: the rectangles share a cell (Min inclusive, Max
\* exclusive; an empty rectangle overlaps nothing)
Empty(r) == r.Min.X >= r.Max.X \/ r.Min.Y >= r.Max.Y

Overlaps(r, s) ==
    /\ ~Empty(r)
    /\ ~Empty(s)
    /\ r.Min.X < s.Max.X /\ s.Min.X < r.Max.X
    /\ r.Min.Y < s.Max.Y /\ s.Min.Y < r.Max.Y

\* C25: for every core count >= 1 and every terminal width, the per-core
\* gauge rectangles are pairwise non-overlapping, the left column holds
\* floor(cores/2) gauges and the right column the others, every per-core
\* gauge lies between the rows 7 and cpuHeight = 7 + 3 * ceil(cores/2), and
\* the network panel starts at cpuHeight: no per-core gauge overlaps the
\* average gauge above it or the network panel below it.
C25_Layout ==
    (probe.op = "layout" /\ probe.done) =>
        LET n == probe.cores
            g == probe.gauges
            half == termWidth \div 2
        IN  /\ Len(g) = n
            /\ \A i, j \in 1..n : i # j => ~Overlaps(g[i].Rectangle, g[j].Rectangle)
            /\ Cardinality({i \in 1..n : g[i].isLeftColumn}) = n \div 2
            /\ \A i \in 1..n :
                  /\ g[i].Rectangle.Min.X = IF g[i].isLeftColumn THEN 0 ELSE half
                  /\ g[i].Rectangle.Max.X = IF g[i].isLeftColumn THEN half ELSE termWidth
                  /\ g[i].Rectangle.Min.Y >= 7
                  /\ g[i].Rectangle.Max.Y = g[i].Rectangle.Min.Y + 3
                  /\ g[i].Rectangle.Max.Y <= probe.cpuHeight
                  /\ ~Overlaps(g[i].Rectangle, probe.avg)
                  /\ ~Overlaps(g[i].Rectangle, probe.netStats)
            /\ probe.cpuHeight = 7 + 3 * ((n \div 2) + (n % 2))
            /\ probe.netStats.Min.Y = probe.cpuHeight
            /\ probe.avg.Max.Y <= 7

\* five cores on a terminal 21 columns wide: two gauges on the left, three
\* on the right, the lowest one ending where the network panel starts
C25_Witness ==
    /\ probe.op = "layout"
    /\ probe.done
    /\ probe.cores = 5
    /\ termWidth = 21
    /\ Cardinality({i \in 1..5 : probe.gauges[i].isLeftColumn}) = 2
    /\ probe.gauges[5].Rectangle = [Min |-> [X |-> 10, Y |-> 13], Max |-> [X |-> 21, Y |-> 16]]
    /\ probe.netStats.Min.Y = 16

=============================================================================
